---- MODULE Spec2Model ----
(***************************************************************************)
(* A model of chunksumm.py: the dataset SuMM_with_tokenizer, the batch     *)
(* collator SummDataModule.collate and the LightningModule CHUNKSUMM.      *)
(*                                                                         *)
(* Tensors are sequences (1-based): a 2-D tensor is a sequence of rows, a  *)
(* 3-D tensor a sequence of rows of vectors.  Floating-point values of the *)
(* model side are fixed-point integers in thousandths (1000 is 1.0).       *)
(* The 768-wide hidden vector of the encoder is abstracted to one integer  *)
(* feature per token position.                                             *)
(***************************************************************************)
EXTENDS Integers, Sequences, FiniteSets, TLC

VARIABLES
    component,            \* which object the behaviour exercises
    \* ---- CHUNKSUMM and the trainer driving it ----
    enable_chunk,         \* self.enable_chunk
    n_classes,            \* out_features of self.l1
    stage,                \* the trainer's entry point: which step it calls
    batch_size,           \* batch_size of the DataLoader
    seed,                 \* which dataset the DataLoader reads
    first,                \* where in Lens that dataset starts
    batch_idx,            \* batches consumed so far
    mode,                 \* the step method that ran last
    items,                \* the examples the DataLoader fetched for the batch
    batch,                \* collate(items): the batch argument of the step
    forward_train,        \* the train argument the step gave to forward
    bert_calls,           \* the inputs self.bert was invoked on, in order
    handler,              \* get_embedding: the mean hidden state of each call
    embed2d,              \* what get_embedding returned
    outputs,              \* what forward returned
    expanded,             \* what expand_targets returned
    labels,               \* labels after reshape_as
    loss,                 \* <<value>> when the criterion ran, <<>> otherwise
    logged,               \* names given to self.log
    status,               \* "idle", "ok" or "error" (an exception left the call)
    \* ---- SuMM_with_tokenizer ----
    data,                 \* self.data: the rows of the DataFrame
    process_paper_level,  \* self.process_paper_level
    papers_dict,          \* self.papers_dict
    index,                \* the index __getitem__ was last called with
    item                  \* what that call returned

modelVars == <<enable_chunk, n_classes, stage, batch_size, seed, first, batch_idx, mode,
               items, batch, forward_train, bert_calls, handler, embed2d,
               outputs, expanded, labels, loss, logged, status>>

datasetVars == <<data, process_paper_level, papers_dict, index, item>>

vars == <<component, modelVars, datasetVars>>

----------------------------------------------------------------------------
(* Bounds of the model *)

MaxModelBatch == 2
MaxClasses == 3
NumBatches == 2
MaxCollateBatch == 2
MaxItemLen == 3
MaxRows == 3

\* the datasets of the model runs
Seeds == {1, 2}

\* token-axis lengths of the batches; a DataLoader yields NumBatches batches,
\* of consecutive lengths of this cycle
Lens == <<1, 512, 513, 768, 1000>>

----------------------------------------------------------------------------
(* Helpers on sequences *)

Max2(a, b) == IF a >= b THEN a ELSE b
Min2(a, b) == IF a <= b THEN a ELSE b
Abs(a) == IF a >= 0 THEN a ELSE -a

RECURSIVE SumRange(_, _, _)
SumRange(f, lo, hi) ==
    IF lo > hi THEN 0
    ELSE IF lo = hi THEN f[lo]
    ELSE SumRange(f, lo, (lo + hi) \div 2) + SumRange(f, ((lo + hi) \div 2) + 1, hi)

RECURSIVE MaxRange(_, _, _)
MaxRange(f, lo, hi) ==
    IF lo = hi THEN f[lo]
    ELSE Max2(MaxRange(f, lo, (lo + hi) \div 2),
              MaxRange(f, ((lo + hi) \div 2) + 1, hi))

Width(t) == IF Len(t) = 0 THEN 0 ELSE Len(t[1])

\* A tensor of rank 1, 2, 3 as an evaluated tuple (of tuples): the value is
\* the argument's, computed once instead of at each application of a
\* function constructor
Tensor1(s) == s \o <<>>
Tensor2(t) == Tensor1([b \in DOMAIN t |-> Tensor1(t[b])])
Tensor3(t) == Tensor1([b \in DOMAIN t |-> Tensor2(t[b])])

\* element p of the concatenation of pieces[j], pieces[j+1], ...
RECURSIVE CatAt(_, _, _)
CatAt(pieces, j, p) ==
    IF p <= Len(pieces[j]) THEN pieces[j][p]
    ELSE CatAt(pieces, j + 1, p - Len(pieces[j]))

\* torch.cat(pieces) of 1-D pieces / sum(list_of_lists, start=[])
ConcatAll(pieces) ==
    Tensor1([p \in 1..SumRange([j \in 1..Len(pieces) |-> Len(pieces[j])], 1, Len(pieces))
                |-> CatAt(pieces, 1, p)])

----------------------------------------------------------------------------
(* SummDataModule.collate *)

\* the spacing of float32 values around the non-negative integer n
RECURSIVE Float32Step(_, _)
Float32Step(n, step) ==
    IF n \div step < 16777216 THEN step ELSE Float32Step(n, 2 * step)

\* storing the non-negative integer n in a float32 tensor (round to nearest,
\* ties to even): exact below 2^24
Float32(n) ==
    IF n < 16777216 THEN n
    ELSE LET step == Float32Step(n, 1)
             q == n \div step
             r == n % step
         IN IF 2 * r < step THEN q * step
            ELSE IF 2 * r > step THEN (q + 1) * step
            ELSE IF q % 2 = 0 THEN q * step ELSE (q + 1) * step

\* Tensor.int() of a float32 holding a whole number x: the 32-bit integer x
\* (every value of this model lies inside the 32-bit range)
ToInt32(x) == x

\* maximum = max(len(item["input_ids"]) for item in batch)
Maximum(b) == MaxRange([i \in 1..Len(b) |-> Len(b[i].input_ids)], 1, Len(b))

\* a pad that writes the tensor at the end of out
Pad_left(tensor, maximum) ==
    [p \in 1..maximum |->
        IF p > maximum - Len(tensor) THEN Float32(tensor[p - (maximum - Len(tensor))])
        ELSE 0]

\* pad: out = torch.zeros(max); out[: len(tensor)] = tensor
Pad(tensor, maximum) ==
    [p \in 1..maximum |-> IF p <= Len(tensor) THEN Float32(tensor[p]) ELSE 0]

\* the slice assignment of pad raises when the tensor is longer than out
PadRaises(tensor, maximum) == Len(tensor) > maximum

CollateError ==
    [status |-> "error", input_ids |-> <<>>, attention_mask |-> <<>>,
     token_type_ids |-> <<>>, targets |-> <<>>]

Collate(b) ==
    IF Len(b) = 0 THEN CollateError     \* max() of an empty sequence raises
    ELSE IF \E i \in 1..Len(b) :
              \/ PadRaises(b[i].input_ids, Maximum(b))
              \/ PadRaises(b[i].attention_mask, Maximum(b))
              \/ PadRaises(b[i].targets, Maximum(b))
    THEN CollateError
    ELSE [status |-> "ok",
          input_ids |->
              Tensor2([i \in 1..Len(b) |->
                  [p \in 1..Maximum(b) |->
                      ToInt32(Pad(b[i].input_ids, Maximum(b))[p])]]),
          attention_mask |->
              Tensor2([i \in 1..Len(b) |->
                  [p \in 1..Maximum(b) |->
                      ToInt32(Pad(b[i].attention_mask, Maximum(b))[p])]]),
          token_type_ids |->
              Tensor2([i \in 1..Len(b) |-> [p \in 1..Maximum(b) |-> ToInt32(0)]]),
          targets |->
              Tensor2([i \in 1..Len(b) |-> Pad(b[i].targets, Maximum(b))])]

----------------------------------------------------------------------------
(* CHUNKSUMM: the encoder and get_embedding *)

\* split_size_or_sections of self.chunk
split_size == 512

\* the slice [:, :512] of the non-chunked branch
max_positions == 512

\* torch.split(t, 512, dim=1): consecutive windows of 512 columns, the last one
\* shorter; a tensor with no column gives one empty window
NumSplits(n) == Max2((n + split_size - 1) \div split_size, 1)

\* a chunk with windows of half the size
chunk_half(t) ==
    [k \in 1..Max2((Width(t) + 255) \div 256, 1) |->
        Tensor1([b \in 1..Len(t) |->
            SubSeq(t[b], (k - 1) * 256 + 1, Min2(k * 256, Width(t)))])]

chunk(t) ==
    [k \in 1..NumSplits(Width(t)) |->
        Tensor1([b \in 1..Len(t) |->
            SubSeq(t[b], (k - 1) * split_size + 1, Min2(k * split_size, Width(t)))])]

\* no truncation to the positions the encoder has
Truncate_none(t) == t

\* t[:, :512]
Truncate(t) ==
    Tensor1([b \in 1..Len(t) |-> SubSeq(t[b], 1, Min2(max_positions, Width(t)))])

\* The encoder self.bert, a deterministic function of what it is given.  For
\* each row, the hidden state of layer k at position p mixes the token at p,
\* its position inside the input and a digest of the input: its length and
\* its first, middle and last attended token.
RowContext(ids, mask, tt) ==
    IF Len(ids) = 0 THEN 0
    ELSE Len(ids)
         + 3 * mask[1] * (ids[1] + tt[1])
         + 5 * mask[(Len(ids) + 1) \div 2] * ids[(Len(ids) + 1) \div 2]
         + 11 * mask[Len(ids)] * (ids[Len(ids)] + tt[Len(ids)])

Hidden(k, ctx, ids, mask, tt, p) ==
    (k * ctx + 31 * ids[p] + 7 * p + 3 * mask[p] + tt[p]) % 1009

\* self.bert(ids, mask, tt, output_hidden_states=True)[2]: embeddings + 12 layers
bert(ids, mask, tt) ==
    [k \in 1..13 |->
        [b \in 1..Len(ids) |->
            [p \in 1..Len(ids[b]) |->
                Hidden(k, RowContext(ids[b], mask[b], tt[b]),
                       ids[b], mask[b], tt[b], p)]]]

\* torch.stack(hidden_states)[-5:].mean(0)
MeanLastLayers(hs) ==
    Tensor2([b \in 1..Len(hs[1]) |->
        [p \in 1..Len(hs[1][b]) |->
            SumRange([k \in 1..Len(hs) |-> hs[k][b][p]],
                     Len(hs) - 4, Len(hs)) \div 5]])

\* windows that overlap: every window but the first also gets the token before it
BertInputs_overlap(chunked, input_ids, attention_mask, token_type_ids) ==
    LET Win(t, k) ==
            Tensor1([b \in 1..Len(t) |->
                SubSeq(t[b], Max2((k - 1) * split_size, 1), Min2(k * split_size, Width(t)))])
    IN Tensor1([k \in 1..NumSplits(Width(input_ids)) |->
          [input_ids |-> Win(input_ids, k),
           attention_mask |-> Win(attention_mask, k),
           token_type_ids |-> Win(token_type_ids, k)]])

\* what get_embedding gives to self.bert, call by call
BertInputs(chunked, input_ids, attention_mask, token_type_ids) ==
    IF chunked
    THEN Tensor1(
           [k \in 1..Min2(Len(chunk(input_ids)),                       \* zip
                         Min2(Len(chunk(attention_mask)),
                              Len(chunk(token_type_ids)))) |->
               [input_ids |-> chunk(input_ids)[k],
                attention_mask |-> chunk(attention_mask)[k],
                token_type_ids |-> chunk(token_type_ids)[k]]])
    ELSE << [input_ids |-> Truncate(input_ids),
             attention_mask |-> Truncate(attention_mask),
             token_type_ids |-> Truncate(token_type_ids)] >>

\* chunk_embed2d of each call (the list handler; its one entry when not chunked)
Handler(calls) ==
    Tensor1([k \in 1..Len(calls) |->
        MeanLastLayers(bert(calls[k].input_ids, calls[k].attention_mask,
                            calls[k].token_type_ids))])

\* torch.cat(handler, dim=1)
CatDim1(h) ==
    Tensor2([b \in 1..Len(h[1]) |->
        [p \in 1..SumRange([k \in 1..Len(h) |-> Len(h[k][b])], 1, Len(h)) |->
            CatAt([k \in 1..Len(h) |-> h[k][b]], 1, p)]])

\* embed2d from the list of per-call embeddings
Embed2d(chunked, h) == IF chunked THEN CatDim1(h) ELSE h[1]

get_embedding(chunked, input_ids, attention_mask, token_type_ids) ==
    Embed2d(chunked,
            Handler(BertInputs(chunked, input_ids, attention_mask, token_type_ids)))

----------------------------------------------------------------------------
(* CHUNKSUMM: forward, expand_targets, the criterion *)

\* self.l1: one logit per class from the embedding of a position (thousandths)
l1(e, c) == (((e * (c + 1) + 5 * c) % 9) - 4) * 1000

\* exp(x) for a logit x in -4.0 .. 4.0, in thousandths
ExpTable == <<18, 50, 135, 368, 1000, 2718, 7389, 20086, 54598>>
Exp(x) == ExpTable[(x \div 1000) + 5]

\* torch.softmax(logits, dim=-1) of one position
Softmax(v) ==
    [c \in 1..Len(v) |->
        (1000 * Exp(v[c])) \div SumRange([j \in 1..Len(v) |-> Exp(v[j])], 1, Len(v))]

\* logits = self.l1(embed2d); return logits if train else softmax(logits)
ClassifierHead(e2d, classes, train) ==
    Tensor3([b \in 1..Len(e2d) |->
        [p \in 1..Len(e2d[b]) |->
            IF train THEN [c \in 1..classes |-> l1(e2d[b][p], c)]
            ELSE Softmax([c \in 1..classes |-> l1(e2d[b][p], c)])]])

forward(chunked, classes, input_ids, attention_mask, token_type_ids, train) ==
    ClassifierHead(get_embedding(chunked, input_ids, attention_mask, token_type_ids),
         classes, train)

\* an expansion that runs position after position instead of row after row
expand_targets_by_column(targets) ==
    Tensor1([i \in 1..(Len(targets) * Width(targets)) |->
        IF targets[((i - 1) % Len(targets)) + 1][((i - 1) \div Len(targets)) + 1] # 0
        THEN <<1, 0>> ELSE <<0, 1>>])

\* one row [1,0] or [0,1] per label, batch row after batch row
expand_targets(targets) ==
    Tensor1([i \in 1..(Len(targets) * Width(targets)) |->
        IF targets[((i - 1) \div Width(targets)) + 1][((i - 1) % Width(targets)) + 1] # 0
        THEN <<1, 0>> ELSE <<0, 1>>])

\* torch.stack of an empty list raises
ExpandRaises(targets) == Len(targets) * Width(targets) = 0

\* number of elements of a 2-D and of a 3-D tensor
Numel2(t) == IF Len(t) = 0 THEN 0 ELSE Len(t) * Len(t[1])
Numel3(t) == IF Len(t) = 0 \/ Len(t[1]) = 0 THEN 0
             ELSE Len(t) * Len(t[1]) * Len(t[1][1])

\* labels.reshape_as(outputs) raises unless the element counts agree
ReshapeRaises(lab, out) == Numel2(lab) # Numel3(out)

\* the elements of lab in row-major order, laid out in the shape of out
reshape_as(lab, out) ==
    Tensor3([b \in 1..Len(out) |->
        [p \in 1..Len(out[1]) |->
            [c \in 1..Len(out[1][1]) |->
                lab[(((b - 1) * Len(out[1]) * Len(out[1][1])
                      + (p - 1) * Len(out[1][1]) + c - 1) \div Len(lab[1])) + 1]
                   [(((b - 1) * Len(out[1]) * Len(out[1][1])
                      + (p - 1) * Len(out[1][1]) + c - 1) % Len(lab[1])) + 1]]]])

\* log(1 + exp(-a)) for a >= 0, in thousandths, linear between integers
SoftplusTable == <<693, 313, 127, 49, 18, 7, 0>>
Softplus(a) ==
    IF a \div 1000 >= 6 THEN 0
    ELSE SoftplusTable[(a \div 1000) + 1]
         + ((SoftplusTable[(a \div 1000) + 2] - SoftplusTable[(a \div 1000) + 1])
            * (a % 1000)) \div 1000

BCETerm(xe, ye) == Max2(xe, 0) - xe * ye + Softplus(Abs(xe))

\* nn.BCEWithLogitsLoss: the mean of max(x,0) - x*y + log(1 + exp(-|x|))
criterion(x, y) ==
    SumRange([b \in 1..Len(x) |->
        SumRange([p \in 1..Len(x[1]) |->
            SumRange([c \in 1..Len(x[1][1]) |-> BCETerm(x[b][p][c], y[b][p][c])],
                     1, Len(x[1][1]))],
            1, Len(x[1]))], 1, Len(x))
    \div Numel3(x)

----------------------------------------------------------------------------
(* The batches the DataLoader gives to the model: collated examples *)

TokenAt(s, p) == 1000 + ((p * p * s + 3 * s + p) % 17)

\* a tokenized example of l tokens, its labels changing along the sequence
Example(l, s) ==
    [input_ids |-> Tensor1([p \in 1..l |-> TokenAt(s, p)]),
     attention_mask |-> Tensor1([p \in 1..l |-> 1]),
     token_type_ids |-> Tensor1([p \in 1..l |-> 0]),
     targets |-> Tensor1([p \in 1..l |-> (p \div s) % 2])]

\* token-axis length of batch k of the loader that starts at f
BatchLen(f, k) == Lens[((f + k - 2) % Len(Lens)) + 1]

\* the examples of a batch of the loader: n examples, the first of l tokens
\* and the later ones shorter
LoaderItems(l, n, s) ==
    Tensor1([i \in 1..n |-> Example(l - (i - 1) * (l \div 3), s + i - 1)])

----------------------------------------------------------------------------
(* Values of the variables of the objects a behaviour does not exercise *)

NoItem == [status |-> "none", input_ids |-> <<>>, attention_mask |-> <<>>,
           token_type_ids |-> <<>>, targets |-> <<>>]

DatasetIdle ==
    /\ data = <<>>
    /\ process_paper_level = FALSE
    /\ papers_dict = <<>>
    /\ index = 0
    /\ item = NoItem

ModelIdle ==
    /\ enable_chunk = FALSE
    /\ n_classes = 2
    /\ stage = "none"
    /\ batch_size = 0
    /\ seed = 0
    /\ first = 0
    /\ batch_idx = 0
    /\ mode = "none"
    /\ forward_train = FALSE
    /\ bert_calls = <<>>
    /\ handler = <<>>
    /\ embed2d = <<>>
    /\ outputs = <<>>
    /\ expanded = <<>>
    /\ labels = <<>>
    /\ loss = <<>>
    /\ logged = <<>>

modelIdleVars == <<enable_chunk, n_classes, stage, batch_size, seed, first,
                   batch_idx, mode, forward_train, bert_calls, handler, embed2d,
                   outputs, expanded, labels, loss, logged>>

----------------------------------------------------------------------------
(* CHUNKSUMM: the object and its step methods, driven by the trainer *)

\* __init__(model, learning_rate, n_classes, enable_chunk), and the trainer's
\* entry point (fit, validate, test or predict) over one DataLoader
InitModel ==
    /\ component = "model"
    /\ enable_chunk \in BOOLEAN
    /\ n_classes \in 1..MaxClasses
    /\ stage \in {"train", "validate", "test", "predict"}
    /\ batch_size \in 1..MaxModelBatch
    /\ seed \in Seeds
    /\ first \in 1..Len(Lens)
    /\ batch_idx = 0
    /\ mode = "none"
    /\ items = <<>>
    /\ batch = CollateError
    /\ forward_train = FALSE
    /\ bert_calls = <<>>
    /\ handler = <<>>
    /\ embed2d = <<>>
    /\ outputs = <<>>
    /\ expanded = <<>>
    /\ labels = <<>>
    /\ loss = <<>>
    /\ logged = <<>>
    /\ status = "idle"
    /\ DatasetIdle

\* the trainer calls the step of its stage on the next batch, unless a step raised
StepEnabled(name) ==
    /\ component = "model"
    /\ stage = name
    /\ status # "error"
    /\ batch_idx < NumBatches

\* the DataLoader yields the next batch and the step calls forward on it
Forward(name, train) ==
    /\ mode' = name
    /\ batch_idx' = batch_idx + 1
    /\ items' = LoaderItems(BatchLen(first, batch_idx + 1), batch_size, seed)
    /\ batch' = Collate(items')
    /\ forward_train' = train
    /\ bert_calls' = BertInputs(enable_chunk, batch'.input_ids,
                                batch'.attention_mask, batch'.token_type_ids)
    /\ handler' = Handler(bert_calls')
    /\ embed2d' = Embed2d(enable_chunk, handler')
    /\ outputs' = ClassifierHead(embed2d', n_classes, train)
    /\ UNCHANGED <<component, enable_chunk, n_classes, stage, batch_size, seed, first>>
    /\ UNCHANGED datasetVars

\* the body shared by training_step, validation_step and test_step: forward,
\* expand_targets, reshape_as, criterion, log
LossStep(name, train, names) ==
    /\ Forward(name, train)
    /\ IF ExpandRaises(batch'.targets)
       THEN /\ expanded' = <<>>
            /\ labels' = <<>>
            /\ loss' = <<>>
            /\ logged' = <<>>
            /\ status' = "error"
       ELSE /\ expanded' = expand_targets(batch'.targets)
            /\ IF ReshapeRaises(expanded', outputs')
               THEN /\ labels' = <<>>
                    /\ loss' = <<>>
                    /\ logged' = <<>>
                    /\ status' = "error"
               ELSE /\ labels' = reshape_as(expanded', outputs')
                    /\ loss' = << criterion(outputs', labels') >>
                    /\ logged' = names
                    /\ status' = "ok"

training_step ==
    /\ StepEnabled("train")
    /\ LossStep("train", TRUE, <<"Loss_train", "Auc_train">>)

validation_step ==
    /\ StepEnabled("validate")
    /\ LossStep("validate", FALSE, <<"Loss_val", "Auc_val">>)

test_step ==
    /\ StepEnabled("test")
    /\ LossStep("test", FALSE, <<"Test_loss", "Test_auc">>)

predict_step ==
    /\ StepEnabled("predict")
    /\ Forward("predict", FALSE)
    /\ expanded' = <<>>
    /\ labels' = <<>>
    /\ loss' = <<>>
    /\ logged' = <<>>
    /\ status' = "ok"

NextModel == training_step \/ validation_step \/ test_step \/ predict_step

SpecModel == InitModel /\ [][NextModel]_vars

----------------------------------------------------------------------------
(* SummDataModule.collate as the collate_fn of a DataLoader *)

\* token ids of an example of l tokens: from the low or the high end of a
\* 30522-entry vocabulary
ExampleIds(l, a) ==
    [p \in 1..l |-> IF a = 0 THEN 100 + p ELSE 30522 - p]

\* its per-token labels: all 0, all 1, or changing from token to token
ExampleTargets(l, t) ==
    [p \in 1..l |-> IF t = 2 THEN p % 2 ELSE t]

CollateExamples ==
    { [input_ids |-> ExampleIds(l, a),
       attention_mask |-> [p \in 1..l |-> 1],
       token_type_ids |-> [p \in 1..l |-> 0],
       targets |-> ExampleTargets(l, t)] :
         l \in 0..MaxItemLen, a \in 0..1, t \in 0..2 }

RECURSIVE SeqsUpTo(_, _)
SeqsUpTo(S, n) ==
    IF n = 0 THEN {<<>>}
    ELSE SeqsUpTo(S, n - 1)
         \cup { Append(q, x) : q \in { r \in SeqsUpTo(S, n - 1) : Len(r) = n - 1 },
                               x \in S }

\* the DataLoader has fetched the examples of a batch
InitCollate ==
    /\ component = "collate"
    /\ items \in SeqsUpTo(CollateExamples, MaxCollateBatch)
    /\ batch = CollateError
    /\ status = "idle"
    /\ ModelIdle
    /\ DatasetIdle

\* collate_fn(items)
collate ==
    /\ component = "collate"
    /\ status = "idle"
    /\ batch' = Collate(items)
    /\ status' = batch'.status
    /\ UNCHANGED <<component, items, modelIdleVars, datasetVars>>

NextCollate == collate

SpecCollate == InitCollate /\ [][NextCollate]_vars

----------------------------------------------------------------------------
(* SuMM_with_tokenizer *)

\* A cell of the DataFrame is <<v>> when it holds the value v and <<>> when
\* the value is missing (NaN).  A text is a sequence of words.  Scalars of
\* the tensors of an example are written with their dtype: "True"/"False"
\* (bool), "1.0"/"0.0"/"nan" (float).

PaperIds == {1, 2}
Texts == { <<1>>, <<2, 1>> }

WellFormedRecords ==
    { [paper_id |-> i, text |-> <<t>>, in_summary |-> <<l>>] :
         i \in PaperIds, t \in Texts, l \in BOOLEAN }

MalformedRecords ==
    { [paper_id |-> 1, text |-> <<>>, in_summary |-> <<TRUE>>],
      [paper_id |-> 1, text |-> << <<1>> >>, in_summary |-> <<>>] }

Records == WellFormedRecords \cup MalformedRecords

\* the subword pieces of a word
WordPieces(w) == IF w = 1 THEN <<2023>> ELSE <<2003, 1037>>

TokenizerError ==
    [status |-> "error", input_ids |-> <<>>, token_type_ids |-> <<>>,
     attention_mask |-> <<>>]

\* tokenizer(text, add_special_tokens=...): raises unless text is a string;
\* [CLS] and [SEP] around the pieces when add_special_tokens
Tokenizer(cell, add_special_tokens) ==
    IF cell = <<>> THEN TokenizerError
    ELSE LET pieces == ConcatAll([w \in 1..Len(cell[1]) |-> WordPieces(cell[1][w])])
             ids == IF add_special_tokens THEN <<101>> \o pieces \o <<102>>
                    ELSE pieces
         IN [status |-> "ok",
             input_ids |-> ids,
             token_type_ids |-> [p \in 1..Len(ids) |-> 0],
             attention_mask |-> [p \in 1..Len(ids) |-> 1]]

\* positions of the rows of d with paper_id i, in row order
RECURSIVE RowsOf(_, _, _)
RowsOf(d, i, from) ==
    IF from > Len(d) THEN <<>>
    ELSE IF d[from].paper_id = i THEN <<from>> \o RowsOf(d, i, from + 1)
    ELSE RowsOf(d, i, from + 1)

IdsOf(d) == { d[r].paper_id : r \in 1..Len(d) }

\* the keys of a groupby, ascending
RECURSIVE SortedIds(_)
SortedIds(S) ==
    IF S = {} THEN <<>>
    ELSE LET m == CHOOSE x \in S : \A y \in S : x <= y
         IN <<m>> \o SortedIds(S \ {m})

\* {i: v for i, v in enumerate(data.groupby('paper_id').groups.values())}
PapersDict(d) ==
    [i \in 1..Cardinality(IdsOf(d)) |-> RowsOf(d, SortedIds(IdsOf(d))[i], 1)]

\* __len__
DatasetLen(d, paper_level) ==
    IF paper_level THEN Cardinality(IdsOf(d)) ELSE Len(d)

\* bool(cell) of Python: NaN is truthy
Truthy(cell) == IF cell = <<>> THEN TRUE ELSE cell[1]

\* torch.tensor(list) of in_summary cells: a bool tensor when every cell is a
\* bool, a float tensor (an empty one too) otherwise
LabelTensor(cells) ==
    IF Len(cells) > 0 /\ \A j \in 1..Len(cells) : cells[j] # <<>>
    THEN [j \in 1..Len(cells) |-> IF cells[j][1] THEN "True" ELSE "False"]
    ELSE [j \in 1..Len(cells) |->
            IF cells[j] = <<>> THEN "nan"
            ELSE IF cells[j][1] THEN "1.0" ELSE "0.0"]

ItemError == [status |-> "error", input_ids |-> <<>>, attention_mask |-> <<>>,
              token_type_ids |-> <<>>, targets |-> <<>>]

\* a combine_inputs that tokenizes each row with [CLS] and [SEP]
combine_inputs_special(rows) ==
    LET tokens == [j \in 1..Len(rows) |-> Tokenizer(rows[j].text, TRUE)]
    IN IF \E j \in 1..Len(rows) : tokens[j].status = "error" THEN ItemError
       ELSE [status |-> "ok",
             input_ids |->
                 ConcatAll([j \in 1..Len(rows) |-> tokens[j].input_ids]),
             token_type_ids |->
                 ConcatAll([j \in 1..Len(rows) |-> tokens[j].token_type_ids]),
             attention_mask |->
                 ConcatAll([j \in 1..Len(rows) |-> tokens[j].attention_mask]),
             targets |->
                 LabelTensor(ConcatAll([j \in 1..Len(rows) |->
                     [p \in 1..Len(tokens[j].input_ids) |-> rows[j].in_summary]]))]

\* combine_inputs(paper, tokenizer): tokenize each row without special tokens,
\* give each token its row's in_summary, concatenate the rows of the first
\* group of groupby("paper_id")
combine_inputs(rows) ==
    LET tokens == [j \in 1..Len(rows) |-> Tokenizer(rows[j].text, FALSE)]
        group == RowsOf(rows, SortedIds(IdsOf(rows))[1], 1)
        Field(j, name) == tokens[group[j]][name]
    IN IF \E j \in 1..Len(rows) : tokens[j].status = "error" THEN ItemError
       ELSE [status |-> "ok",
             input_ids |->
                 ConcatAll([j \in 1..Len(group) |-> Field(j, "input_ids")]),
             token_type_ids |->
                 ConcatAll([j \in 1..Len(group) |-> Field(j, "token_type_ids")]),
             attention_mask |->
                 ConcatAll([j \in 1..Len(group) |-> Field(j, "attention_mask")]),
             targets |->
                 LabelTensor(ConcatAll([j \in 1..Len(group) |->
                     [p \in 1..Len(Field(j, "input_ids")) |->
                         rows[group[j]].in_summary]]))]

\* a target that is 1.0 for the sentences outside the summary
SentenceTargets_inverted(input_len, cell) ==
    [p \in 1..input_len |-> IF Truthy(cell) THEN "0.0" ELSE "1.0"]

\* target = [1.] * input_len if datum.in_summary else [0.] * input_len
SentenceTargets(input_len, cell) ==
    [p \in 1..input_len |-> IF Truthy(cell) THEN "1.0" ELSE "0.0"]

\* __getitem__(index), index counted from 1
GetItem(d, paper_level, pdict, i) ==
    IF paper_level
    THEN combine_inputs([j \in 1..Len(pdict[i]) |-> d[pdict[i][j]]])
    ELSE LET inputs == Tokenizer(d[i].text, TRUE)
         IN IF inputs.status = "error" THEN ItemError
            ELSE [status |-> "ok",
                  input_ids |-> inputs.input_ids,
                  attention_mask |-> inputs.attention_mask,
                  token_type_ids |-> inputs.token_type_ids,
                  targets |-> SentenceTargets(Len(inputs.input_ids),
                                              d[i].in_summary)]

\* __init__(data, tokenizer, process_paper_level)
InitDataset ==
    /\ component = "dataset"
    /\ data \in SeqsUpTo(Records, MaxRows) \ {<<>>}
    /\ process_paper_level \in BOOLEAN
    /\ papers_dict = PapersDict(data)
    /\ index = 0
    /\ item = NoItem
    /\ items = <<>>
    /\ batch = CollateError
    /\ status = "idle"
    /\ ModelIdle

getitem ==
    /\ component = "dataset"
    /\ \E i \in 1..DatasetLen(data, process_paper_level) :
          /\ index' = i
          /\ item' = GetItem(data, process_paper_level, papers_dict, i)
    /\ UNCHANGED <<component, data, process_paper_level, papers_dict,
                   items, batch, status, modelIdleVars>>

NextDataset == getitem

SpecDataset == InitDataset /\ [][NextDataset]_vars

----------------------------------------------------------------------------
(* The whole program: a behaviour exercises one of the objects *)

Init == InitDataset \/ InitCollate \/ InitModel

Next == getitem \/ collate \/ training_step \/ validation_step \/ test_step
        \/ predict_step

Spec == Init /\ [][Next]_vars

----------------------------------------------------------------------------
(* Properties of CHUNKSUMM *)

Stepped == component = "model" /\ mode # "none"
LossModes == {"train", "validate", "test"}
TokenLen == Width(batch.input_ids)

\* C2: for a batch of at most 512 tokens, get_embedding returns the same
\* tensor (same shape, same value at every row and position) with
\* enable_chunk=True and with enable_chunk=False.
C2_ChunkedEqualsNonChunked ==
    (Stepped /\ TokenLen <= 512) =>
        /\ embed2d = get_embedding(TRUE, batch.input_ids, batch.attention_mask,
                                   batch.token_type_ids)
        /\ embed2d = get_embedding(FALSE, batch.input_ids, batch.attention_mask,
                                   batch.token_type_ids)

C2_Witness ==
    /\ Stepped /\ enable_chunk /\ TokenLen = 512 /\ Len(batch.input_ids) = 2
    /\ Len(embed2d[1]) = 512

\* C3: for a batch of L > 512 tokens, chunked mode returns exactly L embedding
\* rows per batch row (1000 tokens go through windows of 512 and 488 tokens),
\* non-chunked mode exactly 512.
C3_RowCounts ==
    (Stepped /\ TokenLen > 512) =>
        /\ Len(embed2d) = Len(batch.input_ids)
        /\ \A b \in 1..Len(embed2d) :
              Len(embed2d[b]) = IF enable_chunk THEN TokenLen ELSE 512
        /\ (enable_chunk /\ TokenLen = 1000) =>
              /\ Len(bert_calls) = 2
              /\ Width(bert_calls[1].input_ids) = 512
              /\ Width(bert_calls[2].input_ids) = 488
              /\ \A b \in 1..Len(embed2d) :
                    /\ SubSeq(embed2d[b], 1, 512) = handler[1][b]
                    /\ SubSeq(embed2d[b], 513, 1000) = handler[2][b]

C3_Witness ==
    /\ Stepped /\ enable_chunk /\ TokenLen = 1000 /\ Len(embed2d[1]) = 1000

C3_WitnessNonChunked ==
    /\ Stepped /\ ~enable_chunk /\ TokenLen = 1000 /\ Len(embed2d[1]) = 512

\* the label of an expanded row: 1 iff the argmax of the row is index 0
ArgMax(v) == CHOOSE i \in 1..Len(v) :
                /\ \A j \in 1..Len(v) : v[j] <= v[i]
                /\ \A j \in 1..(i - 1) : v[j] < v[i]
LabelOf(v) == IF ArgMax(v) = 1 THEN 1 ELSE 0

\* C5: expand_targets gives one row per label, batch row after batch row and
\* position after position, [1,0] for label 1 and [0,1] for label 0, and the
\* label is recovered from each row (1 iff the argmax is index 0).
C5_ExpandTargets ==
    (Stepped /\ mode \in LossModes) =>
        /\ Len(expanded) = Len(batch.targets) * TokenLen
        /\ \A b \in 1..Len(batch.targets) : \A p \in 1..TokenLen :
              /\ batch.targets[b][p] = 1
                   => expanded[(b - 1) * TokenLen + p] = <<1, 0>>
              /\ batch.targets[b][p] = 0
                   => expanded[(b - 1) * TokenLen + p] = <<0, 1>>
              /\ LabelOf(expanded[(b - 1) * TokenLen + p]) = batch.targets[b][p]

C5_Witness ==
    /\ Stepped /\ mode = "train" /\ Len(batch.targets) = 2 /\ TokenLen = 513
    /\ \E i, j \in 1..Len(expanded) :
          expanded[i] = <<1, 0>> /\ expanded[j] = <<0, 1>>
    /\ batch.targets[1] # batch.targets[2]

\* the expanded labels line up with the outputs: one label row per output
\* position, one label entry per class
LabelsCorrespond ==
    /\ Width(outputs) = TokenLen
    /\ n_classes = 2

\* C6: a loss step whose expanded labels do not correspond position for
\* position to the model outputs aborts with an error and produces no loss.
C6_MismatchAborts ==
    (Stepped /\ mode \in LossModes /\ ~LabelsCorrespond) =>
        (status = "error" /\ loss = <<>>)

\* column q of t with 1 added to every entry
Bump(t, q) ==
    [b \in 1..Len(t) |-> [p \in 1..Len(t[b]) |->
        IF p = q THEN t[b][p] + 1 ELSE t[b][p]]]

\* column q of t with every 0/1 entry flipped
Flip(t, q) ==
    [b \in 1..Len(t) |-> [p \in 1..Len(t[b]) |->
        IF p = q THEN 1 - t[b][p] ELSE t[b][p]]]

\* the window of token position p
WindowOf(p) == (p - 1) \div 512

\* the positions at which the inputs are varied: the two ends of the first
\* two windows
VariedPositions == {1, 512, 513, 1000} \cap (1..TokenLen)

\* the embedding of the batch with the token, mask and segment at position q
\* of every row changed
VariedEmbedding(q) ==
    get_embedding(TRUE,
        Tensor2(Bump(batch.input_ids, q)),
        Tensor2(Flip(batch.attention_mask, q)),
        Tensor2(Flip(batch.token_type_ids, q)))

\* C9: in chunked mode window k covers exactly positions [512k, min(512(k+1), L)),
\* windows are encoded and concatenated in increasing k, the encoder never
\* gets more than 512 positions, and the embedding at position p is the same
\* for two inputs that agree on p's window and differ outside it.
C9_WindowIsolation ==
    (Stepped /\ enable_chunk) =>
        /\ Len(bert_calls) = (TokenLen + 511) \div 512
        /\ \A k \in 1..Len(bert_calls) : \A b \in 1..Len(batch.input_ids) :
              /\ bert_calls[k].input_ids[b] =
                    SubSeq(batch.input_ids[b], 512 * (k - 1) + 1, Min2(512 * k, TokenLen))
              /\ bert_calls[k].attention_mask[b] =
                    SubSeq(batch.attention_mask[b], 512 * (k - 1) + 1, Min2(512 * k, TokenLen))
              /\ bert_calls[k].token_type_ids[b] =
                    SubSeq(batch.token_type_ids[b], 512 * (k - 1) + 1, Min2(512 * k, TokenLen))
              /\ Len(bert_calls[k].input_ids[b]) <= 512
              /\ SubSeq(embed2d[b], 512 * (k - 1) + 1, Min2(512 * k, TokenLen))
                    = handler[k][b]
        /\ \A q \in VariedPositions :
              \A varied \in {VariedEmbedding(q)} :
                 \A b \in 1..Len(batch.input_ids) : \A p \in 1..TokenLen :
                    WindowOf(p) # WindowOf(q) => varied[b][p] = embed2d[b][p]

\* a batch of two windows in which a change inside a window does change the
\* embeddings of that window
C9_Witness ==
    /\ Stepped /\ enable_chunk /\ TokenLen = 1000 /\ Len(bert_calls) = 2
    /\ VariedEmbedding(513)[1][600] # embed2d[1][600]
    /\ VariedEmbedding(513)[1][512] = embed2d[1][512]

\* C10: every step that computes a loss gave raw logits (forward with
\* train=True) to the criterion, and softmax probabilities are produced only
\* by predict_step, which computes no loss and no metric.
C10_LogitsToCriterion ==
    /\ (Stepped /\ loss # <<>>) =>
          /\ forward_train
          /\ outputs = ClassifierHead(embed2d, n_classes, TRUE)
    /\ (Stepped /\ mode = "predict") => (loss = <<>> /\ logged = <<>>)
    /\ (Stepped /\ status = "ok"
           /\ outputs = ClassifierHead(embed2d, n_classes, FALSE)) => mode = "predict"

----------------------------------------------------------------------------
(* Properties of SummDataModule.collate *)

Collated == component = "collate" /\ status # "idle"
PaddedFields == {"input_ids", "attention_mask", "targets"}
AllFields == PaddedFields \cup {"token_type_ids"}

\* C1: for a non-empty batch of N examples of lengths l_1..l_N, collate
\* returns four fields of shape (N, max(l_i)); in input_ids, attention_mask
\* and targets the first l_i entries of row i are the example's own values in
\* order and every later entry is 0.
C1_CollateShapes ==
    (Collated /\ Len(items) > 0) =>
        /\ status = "ok"
        /\ \A name \in AllFields :
              /\ Len(batch[name]) = Len(items)
              /\ \A i \in 1..Len(items) :
                    /\ \A k \in 1..Len(items) :
                          Len(batch[name][i]) >= Len(items[k].input_ids)
                    /\ \E k \in 1..Len(items) :
                          Len(batch[name][i]) = Len(items[k].input_ids)
        /\ \A name \in PaddedFields : \A i \in 1..Len(items) :
              \A p \in 1..Len(batch[name][i]) :
                  batch[name][i][p] =
                      IF p <= Len(items[i].input_ids) THEN items[i][name][p] ELSE 0

C1_Witness ==
    /\ Collated /\ status = "ok" /\ Len(items) = 2
    /\ Len(items[1].input_ids) = 1 /\ Len(items[2].input_ids) = 3
    /\ items[1].targets = <<1>>
    /\ batch.targets[1] = <<1, 0, 0>>
    /\ batch.input_ids[1][1] = 30521

----------------------------------------------------------------------------
(* Properties of SuMM_with_tokenizer *)

Fetched == component = "dataset" /\ index # 0
WellFormed(r) == r.text # <<>> /\ r.in_summary # <<>>

\* the rows of the paper with the given index, in the order of self.data
PaperId == CHOOSE i \in IdsOf(data) :
               Cardinality({ j \in IdsOf(data) : j < i }) = index - 1
PaperRows == { r \in 1..Len(data) : data[r].paper_id = PaperId }
SentenceLen(r) == Len(Tokenizer(data[r].text, FALSE).input_ids)
Offset(r) == SumRange([q \in 1..Len(data) |->
                          IF q \in PaperRows THEN SentenceLen(q) ELSE 0], 1, r - 1)

\* C4: in paper-level mode the example of a paper is the concatenation, in
\* the order of the source sentences, of the token sequences of its
\* sentences: its length is the sum of their lengths, and the token at offset
\* p of a sentence sits at (tokens of the earlier sentences) + p with the
\* in_summary label of that sentence as its target.
C4_PaperConcatenation ==
    (Fetched /\ process_paper_level /\ \A r \in PaperRows : WellFormed(data[r])) =>
        /\ item.status = "ok"
        /\ Len(item.input_ids) = Offset(Len(data) + 1)
        /\ Len(item.targets) = Len(item.input_ids)
        /\ Len(item.attention_mask) = Len(item.input_ids)
        /\ Len(item.token_type_ids) = Len(item.input_ids)
        /\ \A r \in PaperRows : \A p \in 1..SentenceLen(r) :
              /\ item.input_ids[Offset(r) + p]
                    = Tokenizer(data[r].text, FALSE).input_ids[p]
              /\ item.targets[Offset(r) + p]
                    = IF data[r].in_summary[1] THEN "True" ELSE "False"

C4_Witness ==
    /\ Fetched /\ process_paper_level /\ item.status = "ok"
    /\ Len(data) = 3 /\ PaperRows = {1, 3}
    /\ data[1].text = << <<2, 1>> >> /\ data[3].text = << <<1>> >>
    /\ item.input_ids = <<2003, 1037, 2023, 2023>>
    /\ item.targets = <<"True", "True", "True", "False">>

\* C7: a record without text or without in_summary never becomes an example:
\* fetching a sentence, or a paper, that has such a record ends in an error.
C7_MalformedRejected ==
    Fetched =>
        IF process_paper_level
        THEN (\E r \in PaperRows : ~WellFormed(data[r])) => item.status = "error"
        ELSE ~WellFormed(data[index]) => item.status = "error"

\* C8: in sentence mode the example of a record has targets, attention_mask
\* and token_type_ids as long as its input_ids, and every target is 1.0 when
\* the record is in the summary and 0.0 when it is not.
C8_SentenceTargets ==
    (Fetched /\ ~process_paper_level /\ WellFormed(data[index])) =>
        /\ item.status = "ok"
        /\ Len(item.input_ids) = SentenceLen(index) + 2
        /\ Len(item.targets) = Len(item.input_ids)
        /\ Len(item.attention_mask) = Len(item.input_ids)
        /\ Len(item.token_type_ids) = Len(item.input_ids)
        /\ \A p \in 1..Len(item.targets) :
              item.targets[p] = IF data[index].in_summary[1] THEN "1.0" ELSE "0.0"

C8_Witness ==
    /\ Fetched /\ ~process_paper_level /\ item.status = "ok"
    /\ data[index].text = << <<2, 1>> >> /\ data[index].in_summary = <<FALSE>>
    /\ item.input_ids = <<101, 2003, 1037, 2023, 102>>
    /\ item.targets = <<"0.0", "0.0", "0.0", "0.0", "0.0">>

====
